---- MODULE Spec2Model ----
(***************************************************************************)
(* A model of the Elasticsearch client wrapper (package elasticsearch):    *)
(* every exported operation is one action that issues at most one request  *)
(* to the backend, receives the backend's answer and maps it to the        *)
(* (StatusCode, error) pair the Go code returns, or to the panic / process *)
(* exit the Go code runs into.  The backend is the environment: a store of *)
(* documents with a real-time view (live) and a search view (searchable)   *)
(* that only a refresh brings up to date, and a choice of faults.          *)
(***************************************************************************)
EXTENDS Integers, Sequences, FiniteSets, TLC

\* ---------------------------------------------------------------- bounds
NumIds == 2
\* the page size of a paged query (the other queries ask for every match)
PageSize == 1

\* ------------------------------------------------------------ StatusCode
StatusSuccess == 200
StatusNoContent == 204
StatusCreated == 201
StatusBadRequestError == 400
StatusNotFoundError == 404
StatusRequestError == 499
StatusInternalError == 500
StatusUnexpectedError == 520
StatusParseError == 521
StatusError == 599

\* --------------------------------------------------------- RefreshPolicy
RefreshTrue == "true"
RefreshFalse == "false"
RefreshWaitFor == "wait_for"
\* the zero value "" is what a Document without a Refresh field carries
RefreshPolicies == {"", RefreshTrue, RefreshFalse, RefreshWaitFor}

indexName == "test-es-index"

\* ----------------------------------------------------------- JSON values
\* What encoding/json decodes into interface{}: nil, float64, string,
\* []interface{}, map[string]interface{}.  NotJSON is a body no decoder
\* accepts.
JNull == [t |-> "null"]
JNum(n) == [t |-> "num", n |-> n]
JStr(s) == [t |-> "str", s |-> s]
JArr(a) == [t |-> "arr", a |-> a]
JObj(o) == [t |-> "obj", o |-> o]
NotJSON == [t |-> "raw"]
EmptyObj == JObj([k \in {} |-> JNull])

\* m[k] on a map[string]interface{}: nil when the key is missing
Get(m, k) == IF k \in DOMAIN m.o THEN m.o[k] ELSE JNull
\* _, ok := m[k]
HasKey(m, k) == k \in DOMAIN m.o
\* the checked forms of the type assertions x.(T); the unchecked assertion
\* panics exactly when the checked one is false
IsMap(x) == x.t = "obj"
IsSlice(x) == x.t = "arr"
IsFloat(x) == x.t = "num"
IsString(x) == x.t = "str"
\* json.NewDecoder(body).Decode(&m) with m a map[string]interface{}
DecodesToMap(body) == body.t = "obj"

\* -------------------------------------------------------------- documents
Ids == {ToString(k) : k \in 1..NumIds}
IdNum(id) == CHOOSE k \in 1..NumIds : ToString(k) = id

\* Values a caller can put in Document.Body (an interface{})
NilBody == [k |-> "nil"]
IntBody == [k |-> "int", v |-> 1]
ChanBody == [k |-> "chan"]
DocBody(id) == [k |-> "DocBody", Id |-> id, I |-> IdNum(id) - 1]
Bodies(id) == {NilBody, IntBody, ChanBody, DocBody(id)}

\* json.Marshal: fails on a value encoding/json has no encoding for
MarshalOk(b) == b.k # "chan"
Marshal(b) ==
    CASE b.k = "nil" -> JNull
      [] b.k = "int" -> JNum(b.v)
      [] b.k = "DocBody" -> JObj([id |-> JStr(b.Id), i |-> JNum(b.I)])
\* json.Marshal(&documentBody{Doc: body}), the wrapper of an update request
MarshalDocumentBody(b) == JObj([doc |-> Marshal(b)])

\* The stored _source of document id
SourceOf(id) == Marshal(DocBody(id))

Document(id, body, refresh) ==
    [Index |-> indexName, ID |-> id, Body |-> body, Refresh |-> refresh]

VARIABLES
    live,         \* ids the backend holds (what get / delete / index see)
    searchable,   \* ids visible to search and count as of the last refresh
    indexExists,  \* whether the index exists in the backend
    proc,         \* "running", or how the host process ended
    last,         \* the last call: operation, arguments, response, results
    fresh         \* ids whose last write was acknowledged as created with
                  \* refresh true / wait_for and that no call removed since

vars == <<live, searchable, indexExists, proc, last, fresh>>

\* ---------------------------------------------------------------- backend
Backend == [live |-> live, searchable |-> searchable, indexExists |-> indexExists]

\* esapi: on a transport error Do returns (nil, err)
NoResponse == [err |-> "transport", StatusCode |-> 0, Body |-> NotJSON]
Response(code, body) == [err |-> "nil", StatusCode |-> code, Body |-> body]
NoCall == [err |-> "nocall", StatusCode |-> 0, Body |-> NotJSON]
\* esapi.Response.IsError
IsError(res) == res.StatusCode > 299

ErrorBody(type, status) ==
    JObj([error |-> JObj([type |-> JStr(type), reason |-> JStr("reason")]),
          status |-> JNum(status)])

\* Answers the backend (or the network in front of it) can give to any
\* request instead of serving it
Faults == {"transport", "e500", "notjson", "shape"}
\* error answers whose body is not the structured {"error": {...}} object
ErrorShapeFaults == {"e405", "e502"}
FaultResponse(f) ==
    CASE f = "transport" -> NoResponse
      [] f = "e500" -> Response(500, ErrorBody("internal", 500))
      [] f = "e405" -> Response(405, JObj([error |-> JStr("Incorrect HTTP method"),
                                            status |-> JNum(405)]))
      [] f = "e502" -> Response(502, NotJSON)
      [] f = "notjson" -> Response(200, NotJSON)
      [] f = "shape" -> Response(200, EmptyObj)
\* whether the backend applied the write before giving that answer
Applied(f) == f \in {"none", "notjson", "shape"}

WriteResult(id, result) ==
    JObj([_index |-> JStr(indexName), _id |-> JStr(id), _version |-> JNum(1),
          result |-> JStr(result)])

\* index API: PUT /<index>/_doc/<id>?refresh=<policy>
BackendIndex(req, f) ==
    LET ok == IsMap(req.Body) /\ req.Refresh \in RefreshPolicies
        applied == ok /\ Applied(f)
        live1 == IF applied THEN live \cup {req.DocumentID} ELSE live
        be == [live |-> live1,
               searchable |-> IF applied /\ req.Refresh \in {RefreshTrue, RefreshWaitFor}
                              THEN live1 ELSE searchable,
               indexExists |-> indexExists \/ applied]
        res == IF f # "none" THEN FaultResponse(f)
               ELSE IF ~ok THEN Response(400, ErrorBody("mapper_parsing_exception", 400))
               ELSE IF req.DocumentID \in live
                    THEN Response(200, WriteResult(req.DocumentID, "updated"))
                    ELSE Response(201, WriteResult(req.DocumentID, "created"))
    IN [res |-> res, be |-> be]

\* -------------------------------------------------------- results of calls
Return(status, err) == [out |-> "return", status |-> status, err |-> err]
\* a run-time panic (nil dereference, failed type assertion) unwinds the
\* caller; log.Fatalf calls os.Exit(1)
Panic == [out |-> "panic", status |-> 0, err |-> "nil"]
Fatal == [out |-> "exit", status |-> 0, err |-> "nil"]

Call(ret, res, be, sent) == [ret |-> ret, res |-> res, be |-> be, sent |-> sent]

\* --------------------------------------------------------- CreateDocument
\* (mutant) the request built without the document's refresh policy
IndexRequestNoRefresh(doc, body) ==
    [Index |-> doc.Index, DocumentID |-> doc.ID, Body |-> body, Refresh |-> ""]

IndexRequest(doc, body) ==
    [Index |-> doc.Index, DocumentID |-> doc.ID, Body |-> body,
     Refresh |-> doc.Refresh]

\* (mutant) a 400 answer not told apart from the other error answers
CreateDocumentResponseNo400(res) ==
    IF res.err # "nil" THEN Return(StatusRequestError, res.err)
    ELSE IF IsError(res) THEN Return(StatusError, "nil")
    ELSE IF ~DecodesToMap(res.Body) THEN Return(StatusUnexpectedError, "nil")
    ELSE IF ~IsFloat(Get(res.Body, "_version")) THEN Panic
    ELSE Return(StatusCreated, "nil")

\* what CreateDocument makes of the response of the index request
CreateDocumentResponse(res) ==
    IF res.err # "nil" THEN Return(StatusRequestError, res.err)
    ELSE IF IsError(res) THEN
        IF res.StatusCode = 400 THEN Return(StatusBadRequestError, "bad request")
        ELSE Return(StatusError, "nil")
    ELSE IF ~DecodesToMap(res.Body) THEN Return(StatusUnexpectedError, "nil")
    ELSE IF ~IsFloat(Get(res.Body, "_version")) THEN Panic
    ELSE Return(StatusCreated, "nil")

\* (mutant) the nil body encoded and sent like any other
CreateDocumentNoNilCheck(doc, f) ==
    IF ~MarshalOk(doc.Body)
    THEN Call(Return(StatusInternalError, "json: unsupported type"), NoCall, Backend, 0)
    ELSE LET c == BackendIndex(IndexRequest(doc, Marshal(doc.Body)), f)
         IN Call(CreateDocumentResponse(c.res), c.res, c.be, 1)

CreateDocument(doc, f) ==
    IF doc.Body = NilBody
    THEN Call(Return(StatusInternalError, "Required body"), NoCall, Backend, 0)
    ELSE IF ~MarshalOk(doc.Body)
    THEN Call(Return(StatusInternalError, "json: unsupported type"), NoCall, Backend, 0)
    ELSE LET c == BackendIndex(IndexRequest(doc, Marshal(doc.Body)), f)
         IN Call(CreateDocumentResponse(c.res), c.res, c.be, 1)


\* --------------------------------------------------------- UpdateDocument
UpdateRequest(doc, body) ==
    [Index |-> doc.Index, DocumentID |-> doc.ID, Body |-> body]

\* update API: POST /<index>/_update/<id> with {"doc": ...}; the partial
\* document is merged into the stored one, the search view is not refreshed
BackendUpdate(req, f) ==
    LET ok == IsMap(req.Body) /\ IsMap(Get(req.Body, "doc"))
        res == IF f # "none" THEN FaultResponse(f)
               ELSE IF ~ok THEN Response(400, ErrorBody("mapper_parsing_exception", 400))
               ELSE IF req.DocumentID \notin live
                    THEN Response(404, ErrorBody("document_missing_exception", 404))
                    ELSE Response(200, WriteResult(req.DocumentID, "updated"))
    IN [res |-> res, be |-> Backend]

UpdateDocumentResponse(res) ==
    IF res.err # "nil" THEN Return(StatusRequestError, res.err)
    ELSE IF IsError(res) THEN
        IF res.StatusCode = 400 THEN Return(StatusBadRequestError, "bad request")
        ELSE Return(StatusError, "res.String()")
    ELSE IF ~DecodesToMap(res.Body) THEN Return(StatusUnexpectedError, "decode")
    ELSE IF ~IsFloat(Get(res.Body, "_version")) THEN Panic
    ELSE Return(StatusSuccess, "nil")

UpdateDocument(doc, f) ==
    IF doc.Body = NilBody
    THEN Call(Return(StatusInternalError, "Required body"), NoCall, Backend, 0)
    ELSE IF ~MarshalOk(doc.Body)
    THEN Call(Return(StatusInternalError, "json: unsupported type"), NoCall, Backend, 0)
    ELSE LET c == BackendUpdate(UpdateRequest(doc, MarshalDocumentBody(doc.Body)), f)
         IN Call(UpdateDocumentResponse(c.res), c.res, c.be, 1)

\* --------------------------------------------------------- RemoveDocument
DeleteRequest(doc) == [Index |-> doc.Index, DocumentID |-> doc.ID]

\* delete API: DELETE /<index>/_doc/<id>; 404 with result not_found when
\* the document (or the index) is not there
BackendDelete(req, f) ==
    LET there == req.DocumentID \in live
        res == IF f # "none" THEN FaultResponse(f)
               ELSE IF there THEN Response(200, WriteResult(req.DocumentID, "deleted"))
               ELSE Response(404, WriteResult(req.DocumentID, "not_found"))
        be == [live |-> IF there /\ Applied(f) THEN live \ {req.DocumentID} ELSE live,
               searchable |-> searchable,
               indexExists |-> indexExists]
    IN [res |-> res, be |-> be]

\* (mutant) a 404 answer not told apart from the other error answers
RemoveDocumentResponseNo404(res) ==
    IF res.err # "nil" THEN Return(StatusRequestError, res.err)
    ELSE IF IsError(res) THEN
        CASE res.StatusCode = 400 -> Return(StatusBadRequestError, "bad request")
          [] OTHER -> Return(StatusError, "res.String()")
    ELSE IF ~DecodesToMap(res.Body) THEN Return(StatusUnexpectedError, "parse error")
    ELSE Return(StatusSuccess, "nil")

RemoveDocumentResponse(res) ==
    IF res.err # "nil" THEN Return(StatusRequestError, res.err)
    ELSE IF IsError(res) THEN
        CASE res.StatusCode = 400 -> Return(StatusBadRequestError, "bad request")
          [] res.StatusCode = 404 -> Return(StatusNotFoundError, "not found")
          [] OTHER -> Return(StatusError, "res.String()")
    ELSE IF ~DecodesToMap(res.Body) THEN Return(StatusUnexpectedError, "parse error")
    ELSE Return(StatusSuccess, "nil")

RemoveDocument(doc, f) ==
    LET c == BackendDelete(DeleteRequest(doc), f)
    IN Call(RemoveDocumentResponse(c.res), c.res, c.be, 1)

\* ------------------------------------------------------------------ Search
\* A query body, passed through opaquely: the ids its terms clause selects,
\* its sort clause on field i ("" for none, "bad" for a body the backend
\* cannot parse) and its size
Query(ids, sort, size) == [ids |-> ids, sort |-> sort, size |-> size]
Queries ==
    {Query({id}, "", NumIds) : id \in Ids}
    \cup {Query(Ids, s, NumIds) : s \in {"", "asc", "desc"}}
    \cup {Query(Ids, "asc", PageSize)}
    \cup {Query({}, "bad", NumIds)}

Matches(q) == q.ids \cap searchable

\* The orders in which the backend may list the matches of q: the sort
\* clause's order, or any order (relevance ties) without one
Orders(q) ==
    LET n == Cardinality(Matches(q))
    IN {s \in [1..n -> Matches(q)] :
          /\ \A i, j \in 1..n : i # j => s[i] # s[j]
          /\ q.sort = "asc" => \A i, j \in 1..n : i < j => IdNum(s[i]) < IdNum(s[j])
          /\ q.sort = "desc" => \A i, j \in 1..n : i < j => IdNum(s[i]) > IdNum(s[j])}

Hit(id, sorted) ==
    IF sorted
    THEN JObj([_index |-> JStr(indexName), _type |-> JStr("_doc"), _id |-> JStr(id),
               _score |-> JNull, _source |-> SourceOf(id),
               sort |-> JArr(<<JNum(IdNum(id) - 1)>>)])
    ELSE JObj([_index |-> JStr(indexName), _type |-> JStr("_doc"), _id |-> JStr(id),
               _score |-> JNum(1), _source |-> SourceOf(id)])

Min(a, b) == IF a < b THEN a ELSE b

SearchBody(q, order) ==
    LET n == Min(Len(order), q.size)
    IN JObj([took |-> JNum(1),
             hits |-> JObj([total |-> JObj([value |-> JNum(Len(order)),
                                            relation |-> JStr("eq")]),
                            hits |-> JArr([i \in 1..n |->
                                            Hit(order[i], q.sort # "")])])])

Without(obj, key) == JObj([k \in (DOMAIN obj.o) \ {key} |-> obj.o[k]])
With(obj, key, v) == JObj([k \in (DOMAIN obj.o) \cup {key} |->
                            IF k = key THEN v ELSE obj.o[k]])

\* Success bodies of other shapes than the 7.x search response
SearchShapes ==
    {"hitsnull", "nototal", "totalnum", "nohitsarr", "notype", "nosource", "badsource"}
Reshape(shape, body) ==
    LET h == Get(body, "hits")
        arr == Get(h, "hits").a
        each(F(_)) == With(body, "hits",
                           With(h, "hits", JArr([i \in 1..Len(arr) |-> F(arr[i])])))
        notype(hit) == Without(hit, "_type")
        nosource(hit) == Without(hit, "_source")
        badsource(hit) == With(hit, "_source",
                               With(Get(hit, "_source"), "i", JStr("one")))
    IN CASE shape = "hitsnull" -> With(body, "hits", JNull)
         [] shape = "nototal" -> With(body, "hits", Without(h, "total"))
         [] shape = "totalnum" ->
                With(body, "hits", With(h, "total", Get(Get(h, "total"), "value")))
         [] shape = "nohitsarr" -> With(body, "hits", Without(h, "hits"))
         [] shape = "notype" -> each(notype)
         [] shape = "nosource" -> each(nosource)
         [] shape = "badsource" -> each(badsource)

\* (mutant) the search request built without WithTrackTotalHits(true)
SearchRequestNoTrackTotalHits(index, query) ==
    [Index |-> index, Body |-> query, TrackTotalHits |-> FALSE, Pretty |-> TRUE]

\* es.client.Search(WithIndex(index), WithBody(query),
\* WithTrackTotalHits(true), WithPretty())
SearchRequest(index, query) ==
    [Index |-> index, Body |-> query, TrackTotalHits |-> TRUE, Pretty |-> TRUE]

\* search API: POST /<index>/_search?track_total_hits=<bool>; the response
\* carries the exact hits.total when the request asks to track it and no
\* hits.total when it asks not to
BackendSearch(req, order, f) ==
    LET q == req.Body
        full == SearchBody(q, order)
        body == IF req.TrackTotalHits THEN full
                ELSE With(full, "hits", Without(Get(full, "hits"), "total"))
    IN IF f \in Faults \cup ErrorShapeFaults THEN FaultResponse(f)
       ELSE IF q.sort = "bad" THEN Response(400, ErrorBody("parsing_exception", 400))
       ELSE IF ~indexExists
            THEN Response(404, ErrorBody("index_not_found_exception", 404))
       ELSE IF f = "none" THEN Response(200, body)
       ELSE Response(200, Reshape(f, full))

\* The caller's target container (the data argument): a pointer to a slice
\* of DocBody holding the list of an earlier call, or a value json.Unmarshal
\* rejects (nil, a non-pointer)
OldList == <<[Id |-> "old", I |-> 0]>>
SliceContainer == [kind |-> "slice", list |-> OldList]
Containers == {SliceContainer, [kind |-> "invalid", list |-> <<>>]}

\* Decoding one JSON value into a DocBody: fields of the wrong JSON type are
\* reported as an error and left at their zero value, null leaves the zero
\* value without an error
Fits(src) ==
    \/ src.t = "null"
    \/ /\ IsMap(src)
       /\ Get(src, "id").t \in {"null", "str"}
       /\ Get(src, "i").t \in {"null", "num"}
DecodeDocBody(src) ==
    [Id |-> IF IsMap(src) /\ IsString(Get(src, "id")) THEN Get(src, "id").s ELSE "",
     I |-> IF IsMap(src) /\ IsFloat(Get(src, "i")) THEN Get(src, "i").n ELSE 0]

\* json.Unmarshal(tmp, data), tmp the JSON array of the documents
Unmarshal(docs, data) ==
    IF data.kind # "slice"
    THEN [err |-> "json: Unmarshal(non-pointer)", data |-> data]
    ELSE [err |-> IF \A i \in 1..Len(docs) : Fits(docs[i])
                  THEN "nil" ELSE "json: cannot unmarshal",
          data |-> [kind |-> "slice",
                    list |-> [i \in 1..Len(docs) |-> DecodeDocBody(docs[i])]]]

SearchReturn(status, hitsData, total, err) ==
    [out |-> "return", status |-> status, hits |-> hitsData, total |-> total,
     err |-> err]
SearchPanic == [out |-> "panic", status |-> 0, hits |-> <<>>, total |-> 0, err |-> "nil"]

\* (mutant) an empty hits array taken for a missing hits field
HitsAbsentOrEmpty(result) ==
    \/ ~HasKey(result, "hits")
    \/ /\ IsMap(Get(result, "hits"))
       /\ IsSlice(Get(Get(result, "hits"), "hits"))
       /\ Len(Get(Get(result, "hits"), "hits").a) = 0
\* (mutant) the missing hits field not checked for
HitsNeverAbsent(result) == FALSE

\* _, ok := result["hits"]; !ok
HitsAbsent(result) == ~HasKey(result, "hits")

\* the unchecked assertions of the total: result["hits"] a map, and when it
\* has a total, the total a map whose value is a float64
TotalOk(result) ==
    /\ IsMap(Get(result, "hits"))
    /\ HasKey(Get(result, "hits"), "total") =>
         /\ IsMap(Get(Get(result, "hits"), "total"))
         /\ IsFloat(Get(Get(Get(result, "hits"), "total"), "value"))
Total(result) ==
    IF HasKey(Get(result, "hits"), "total")
    THEN Get(Get(Get(result, "hits"), "total"), "value").n
    ELSE 0

\* the unchecked assertions of the loop over the hits
HitOk(hit) ==
    /\ IsMap(hit)
    /\ IsString(Get(hit, "_index"))
    /\ IsString(Get(hit, "_type"))
    /\ IsString(Get(hit, "_id"))
    /\ Get(hit, "_score").t \in {"null", "num"}
    /\ Get(hit, "sort").t \in {"null", "arr"}
HitData(hit) ==
    [Index |-> Get(hit, "_index").s,
     Type |-> Get(hit, "_type").s,
     Id |-> Get(hit, "_id").s,
     Score |-> IF Get(hit, "_score").t = "null" THEN 0 ELSE Get(hit, "_score").n,
     Sort |-> IF Get(hit, "sort").t = "null" THEN <<>> ELSE Get(hit, "sort").a]
\* (mutant) the hit metadata filled from the end of the array
HitsDataReversed(hits) ==
    [i \in 1..Len(hits) |-> HitData(hits[Len(hits) + 1 - i])]

\* hitsData[i] = h and documents[i] = hit["_source"], for i, hit := range hits
HitsData(hits) == [i \in 1..Len(hits) |-> HitData(hits[i])]
SourceDocuments(hits) == [i \in 1..Len(hits) |-> Get(hits[i], "_source")]

\* the error built from the body of an error response; "panic" when the
\* body decodes but its error is no map
SearchError(res) ==
    IF ~DecodesToMap(res.Body) THEN "Error parsing the response body"
    ELSE IF ~IsMap(Get(res.Body, "error")) THEN "panic"
    ELSE "[status] type: reason"

Search(res, data) ==
    IF res.err # "nil"
    THEN \* defer res.Body.Close() with res == nil
         [ret |-> SearchPanic, data |-> data]
    ELSE IF IsError(res) THEN
        IF SearchError(res) = "panic" THEN [ret |-> SearchPanic, data |-> data]
        ELSE IF res.StatusCode = 400
        THEN [ret |-> SearchReturn(StatusBadRequestError, <<>>, 0, SearchError(res)),
              data |-> data]
        ELSE [ret |-> SearchReturn(StatusError, <<>>, 0, SearchError(res)),
              data |-> data]
    ELSE IF ~DecodesToMap(res.Body)
    THEN [ret |-> SearchReturn(StatusParseError, <<>>, 0, "decode"), data |-> data]
    ELSE IF HitsAbsent(res.Body)
    THEN [ret |-> SearchReturn(StatusNoContent, <<>>, 0, "nil"), data |-> data]
    ELSE IF ~TotalOk(res.Body) THEN [ret |-> SearchPanic, data |-> data]
    ELSE IF ~IsSlice(Get(Get(res.Body, "hits"), "hits"))
    THEN [ret |-> SearchPanic, data |-> data]
    ELSE LET hits == Get(Get(res.Body, "hits"), "hits").a
         IN IF \E i \in 1..Len(hits) : ~HitOk(hits[i])
            THEN [ret |-> SearchPanic, data |-> data]
            ELSE LET u == Unmarshal(SourceDocuments(hits), data)
                 IN IF u.err # "nil"
                    THEN [ret |-> SearchReturn(StatusParseError, <<>>, 0, u.err),
                          data |-> u.data]
                    ELSE [ret |-> SearchReturn(StatusSuccess, HitsData(hits),
                                               Total(res.Body), "nil"),
                          data |-> u.data]

\* --------------------------------------------------------------- GetSource
\* a body whose stream breaks while it is read
Broken == [t |-> "broken"]

\* get source API: GET /<index>/_source/<id>, served from the live view
BackendGetSource(id, f) ==
    IF f = "bodyread" THEN Response(200, Broken)
    ELSE IF f # "none" THEN FaultResponse(f)
    ELSE IF id \in live THEN Response(200, SourceOf(id))
    ELSE Response(404, ErrorBody("resource_not_found_exception", 404))

\* The caller's result argument: a pointer to a DocBody, or a value
\* json.Unmarshal rejects
Results == {[kind |-> "ptr", doc |-> [Id |-> "", I |-> 0]],
            [kind |-> "invalid", doc |-> [Id |-> "", I |-> 0]]}

\* json.Unmarshal(body, result) succeeds
UnmarshalOk(body, result) ==
    /\ body.t \notin {"raw", "broken"}
    /\ result.kind = "ptr"
    /\ Fits(body)

GetSource(res, result) ==
    IF res.err # "nil"
    THEN \* defer res.Body.Close() with res == nil
         [ret |-> Panic, result |-> result]
    ELSE IF res.StatusCode = 404
    THEN [ret |-> Return(res.StatusCode, "nil"), result |-> result]
    ELSE IF res.Body = Broken THEN [ret |-> Fatal, result |-> result]
    ELSE IF ~UnmarshalOk(res.Body, result) THEN [ret |-> Fatal, result |-> result]
    ELSE [ret |-> Return(res.StatusCode, "nil"),
          result |-> [kind |-> "ptr", doc |-> DecodeDocBody(res.Body)]]

\* ------------------------------------------------------------------- Count
\* count API: POST /<index>/_count
BackendCount(q, f) ==
    IF f # "none" THEN FaultResponse(f)
    ELSE IF q.sort = "bad" THEN Response(400, ErrorBody("parsing_exception", 400))
    ELSE IF ~indexExists
         THEN Response(404, ErrorBody("index_not_found_exception", 404))
    ELSE Response(200, JObj([count |-> JNum(Cardinality(Matches(q)))]))

CountReturn(status, count, err) ==
    [out |-> "return", status |-> status, count |-> count, err |-> err]
CountEnd(out) == [out |-> out, status |-> 0, count |-> 0, err |-> "nil"]

Count(res) ==
    IF res.err # "nil"
    THEN \* defer res.Body.Close() with res == nil
         CountEnd("panic")
    ELSE IF IsError(res) THEN CountEnd("exit")
    ELSE IF ~DecodesToMap(res.Body) THEN CountEnd("exit")
    ELSE IF ~IsFloat(Get(res.Body, "count")) THEN CountEnd("panic")
    ELSE CountReturn(StatusSuccess, Get(res.Body, "count").n, "nil")

\* --------------------------------------------------------- admin operations
Acknowledged == JObj([acknowledged |-> JStr("true")])

\* put index template API; the template body is opaque to the client
Templates == {"template", "not a template"}
BackendPutIndexTemplate(templates, f) ==
    IF f # "none" THEN FaultResponse(f)
    ELSE IF templates = "template" THEN Response(200, Acknowledged)
    ELSE Response(400, ErrorBody("parse_exception", 400))

CreateIndexTemplate(res) ==
    IF res.err # "nil" THEN Return(StatusInternalError, res.err)
    ELSE IF IsError(res) THEN
        IF res.StatusCode = 400 THEN Return(StatusBadRequestError, "bad request")
        ELSE Return(StatusError, "nil")
    ELSE Return(StatusSuccess, "nil")

\* delete index API: removes the index with every document in it
BackendDeleteIndices(f) ==
    LET gone == indexExists /\ Applied(f)
        res == IF f # "none" THEN FaultResponse(f)
               ELSE IF indexExists THEN Response(200, Acknowledged)
               ELSE Response(404, ErrorBody("index_not_found_exception", 404))
        be == IF gone THEN [live |-> {}, searchable |-> {}, indexExists |-> FALSE]
              ELSE Backend
    IN [res |-> res, be |-> be]

DeleteIndeces(res) ==
    IF res.err # "nil" THEN Return(StatusError, res.err)
    ELSE IF IsError(res) THEN Return(StatusUnexpectedError, "res.String()")
    ELSE Return(StatusSuccess, "nil")

\* refresh API: brings the search view up to date with the live view
BackendRefreshIndices(f) ==
    [res |-> IF f # "none" THEN FaultResponse(f) ELSE Response(200, Acknowledged),
     be |-> IF f = "none"
            THEN [live |-> live, searchable |-> live, indexExists |-> indexExists]
            ELSE Backend]

\* Ping and Refresh return the error of the request alone
Ping(res) == [out |-> "return", err |-> res.err]
Refresh(res) == [out |-> "return", err |-> res.err]
BackendPing(f) == IF f # "none" THEN FaultResponse(f) ELSE Response(200, EmptyObj)

\* ----------------------------------------------------------------- actions
Init ==
    /\ indexExists \in BOOLEAN
    /\ live \in SUBSET Ids
    /\ searchable \in SUBSET Ids
    /\ (~indexExists => live = {} /\ searchable = {})
    /\ proc = "running"
    /\ last = [op |-> "New"]
    /\ fresh = {}

\* The calls explored: every document against a backend that serves the
\* request, and one document per id against each fault
UpdateInputs ==
    {<<Document(id, b, ""), "none">> : <<id, b>> \in UNION {{id} \X Bodies(id) : id \in Ids}}
    \cup {<<Document(id, DocBody(id), ""), f>> : <<id, f>> \in Ids \X Faults}
CreateInputs ==
    UpdateInputs
    \cup {<<Document(id, DocBody(id), r), "none">> : <<id, r>> \in Ids \X RefreshPolicies}

GetSourceInputs ==
    {<<id, "none", r>> : <<id, r>> \in Ids \X Results}
    \cup {<<id, f, [kind |-> "ptr", doc |-> [Id |-> "", I |-> 0]]>> :
            <<id, f>> \in Ids \X ({"bodyread"} \cup Faults)}

CountInputs ==
    {<<q, "none">> : q \in {q \in Queries : q.sort \in {"", "bad"}}}
    \cup {<<Query(Ids, "", NumIds), f>> : f \in Faults}

SearchInputs ==
    {<<q, "none", d>> : <<q, d>> \in Queries \X Containers}
    \cup {<<Query(Ids, "asc", NumIds), f, SliceContainer>> :
            f \in Faults \cup ErrorShapeFaults \cup SearchShapes}

Finish(c) ==
    /\ live' = c.be.live
    /\ searchable' = c.be.searchable
    /\ indexExists' = c.be.indexExists
    /\ proc' = IF c.ret.out = "return" THEN "running" ELSE c.ret.out

CallRecord(op, doc, f, c) ==
    [op |-> op, doc |-> doc, fault |-> f, existed |-> doc.ID \in live,
     res |-> c.res, ret |-> c.ret, sent |-> c.sent]

CallCreateDocument ==
    /\ proc = "running"
    /\ \E inp \in CreateInputs :
        LET doc == inp[1]
            c == CreateDocument(doc, inp[2])
        IN /\ Finish(c)
           /\ last' = CallRecord("CreateDocument", doc, inp[2], c)
           /\ fresh' = IF /\ c.ret.out = "return"
                          /\ c.ret.status = StatusCreated
                          /\ doc.Refresh \in {RefreshTrue, RefreshWaitFor}
                       THEN fresh \cup {doc.ID} ELSE fresh

CallUpdateDocument ==
    /\ proc = "running"
    /\ \E inp \in UpdateInputs :
        LET c == UpdateDocument(inp[1], inp[2])
        IN /\ Finish(c)
           /\ last' = CallRecord("UpdateDocument", inp[1], inp[2], c)
           /\ UNCHANGED fresh

CallRemoveDocument ==
    /\ proc = "running"
    /\ \E id \in Ids, f \in {"none"} \cup Faults :
        LET doc == Document(id, NilBody, "")
            c == RemoveDocument(doc, f)
        IN /\ Finish(c)
           /\ last' = CallRecord("RemoveDocument", doc, f, c)
           /\ fresh' = fresh \ {id}

CallSearch ==
    /\ proc = "running"
    /\ \E inp \in SearchInputs : \E order \in Orders(inp[1]) :
        LET req == SearchRequest(indexName, inp[1])
            res == BackendSearch(req, order, inp[2])
            s == Search(res, inp[3])
        IN /\ last' = [op |-> "Search", q |-> inp[1], req |-> req, fault |-> inp[2],
                       matches |-> Cardinality(Matches(inp[1])),
                       res |-> res, data0 |-> inp[3], data |-> s.data,
                       ret |-> s.ret, sent |-> 1]
           /\ proc' = IF s.ret.out = "return" THEN "running" ELSE s.ret.out
    /\ UNCHANGED <<live, searchable, indexExists, fresh>>

CallGetSource ==
    /\ proc = "running"
    /\ \E inp \in GetSourceInputs :
        LET res == BackendGetSource(inp[1], inp[2])
            g == GetSource(res, inp[3])
        IN /\ last' = [op |-> "GetSource", id |-> inp[1], fault |-> inp[2], res |-> res,
                       result |-> g.result, ret |-> g.ret, sent |-> 1]
           /\ proc' = IF g.ret.out = "return" THEN "running" ELSE g.ret.out
    /\ UNCHANGED <<live, searchable, indexExists, fresh>>

CallCount ==
    /\ proc = "running"
    /\ \E inp \in CountInputs :
        LET res == BackendCount(inp[1], inp[2])
            ret == Count(res)
        IN /\ last' = [op |-> "Count", q |-> inp[1], fault |-> inp[2], res |-> res,
                       ret |-> ret, sent |-> 1]
           /\ proc' = IF ret.out = "return" THEN "running" ELSE ret.out
    /\ UNCHANGED <<live, searchable, indexExists, fresh>>

CallCreateIndexTemplate ==
    /\ proc = "running"
    /\ \E t \in Templates, f \in {"none"} \cup Faults :
        LET res == BackendPutIndexTemplate(t, f)
        IN /\ f # "none" => t = "template"
           /\ last' = [op |-> "CreateIndexTemplate", templates |-> t, fault |-> f,
                       res |-> res, ret |-> CreateIndexTemplate(res), sent |-> 1]
    /\ UNCHANGED <<live, searchable, indexExists, proc, fresh>>

CallDeleteIndeces ==
    /\ proc = "running"
    /\ \E f \in {"none"} \cup Faults :
        LET c == BackendDeleteIndices(f)
        IN /\ live' = c.be.live
           /\ searchable' = c.be.searchable
           /\ indexExists' = c.be.indexExists
           /\ last' = [op |-> "DeleteIndeces", fault |-> f, res |-> c.res,
                       ret |-> DeleteIndeces(c.res), sent |-> 1]
    /\ fresh' = {}
    /\ UNCHANGED proc

CallRefresh ==
    /\ proc = "running"
    /\ \E f \in {"none", "transport"} :
        LET c == BackendRefreshIndices(f)
        IN /\ live' = c.be.live
           /\ searchable' = c.be.searchable
           /\ indexExists' = c.be.indexExists
           /\ last' = [op |-> "Refresh", fault |-> f, res |-> c.res,
                       ret |-> Refresh(c.res), sent |-> 1]
    /\ UNCHANGED <<proc, fresh>>

CallPing ==
    /\ proc = "running"
    /\ \E f \in {"none", "transport"} :
        last' = [op |-> "Ping", fault |-> f, res |-> BackendPing(f),
                 ret |-> Ping(BackendPing(f)), sent |-> 1]
    /\ UNCHANGED <<live, searchable, indexExists, proc, fresh>>

\* the backend's periodic refresh (index.refresh_interval)
ScheduledRefresh ==
    /\ searchable # live
    /\ searchable' = live
    /\ UNCHANGED <<live, indexExists, proc, last, fresh>>

Next ==
    \/ CallPing
    \/ CallCreateIndexTemplate
    \/ CallRefresh
    \/ CallCreateDocument
    \/ CallUpdateDocument
    \/ CallRemoveDocument
    \/ CallSearch
    \/ CallGetSource
    \/ CallCount
    \/ CallDeleteIndeces
    \/ ScheduledRefresh

Spec == Init /\ [][Next]_vars

\* ------------------------------------------------------------------ claims
Returned(status) == last.ret.out = "return" /\ last.ret.status = status

\* C1: a CreateDocument or UpdateDocument call whose Document has a nil Body
\* returns StatusInternalError with a non-nil error, and the call sends no
\* request to the backend.
C1_NilBodyIsInternalError ==
    (last.op \in {"CreateDocument", "UpdateDocument"} /\ last.doc.Body = NilBody) =>
        /\ Returned(StatusInternalError)
        /\ last.ret.err # "nil"
        /\ last.sent = 0
        /\ last.res = NoCall
C1_Witness ==
    /\ last.op = "CreateDocument"
    /\ last.doc.Body = NilBody
    /\ Returned(StatusInternalError)

\* C2 (as stated): a CreateDocument call with a non-nil body that cannot be
\* serialized -- json.Marshal rejects it, or the backend rejects its encoding
\* -- returns StatusBadRequestError with a non-nil error.
C2_UnserializableIsBadRequest ==
    (/\ last.op = "CreateDocument"
     /\ last.fault = "none"
     /\ last.doc.Body \in {ChanBody, IntBody}) =>
        /\ Returned(StatusBadRequestError)
        /\ last.ret.err # "nil"
\* C2 (amended): a body json.Marshal rejects makes CreateDocument return
\* StatusInternalError with a non-nil error before any request is sent; a
\* body that encodes and that the backend answers with 400 (the bare scalar
\* 1) makes it return StatusBadRequestError with a non-nil error.
C2_EncodeFailureIsInternalError ==
    /\ (last.op = "CreateDocument" /\ last.doc.Body # NilBody
            /\ ~MarshalOk(last.doc.Body)) =>
          /\ Returned(StatusInternalError)
          /\ last.ret.err # "nil"
          /\ last.sent = 0
    /\ (last.op = "CreateDocument" /\ last.sent = 1 /\ last.res.err = "nil"
            /\ last.res.StatusCode = 400) =>
          /\ Returned(StatusBadRequestError)
          /\ last.ret.err # "nil"
    /\ (last.op = "CreateDocument" /\ last.fault = "none"
            /\ last.doc.Body = IntBody) =>
          Returned(StatusBadRequestError)
C2_Witness ==
    /\ last.op = "CreateDocument"
    /\ last.doc.Body = ChanBody
    /\ Returned(StatusInternalError)

\* the hits array of a search response whose hits object has one
HitsArray(res) == Get(Get(res.Body, "hits"), "hits").a
\* a success response with a hits object of total 0 and an empty hits array
ZeroMatches(res) ==
    /\ res.err = "nil" /\ ~IsError(res)
    /\ DecodesToMap(res.Body)
    /\ IsMap(Get(res.Body, "hits"))
    /\ IsMap(Get(Get(res.Body, "hits"), "total"))
    /\ IsFloat(Get(Get(Get(res.Body, "hits"), "total"), "value"))
    /\ Get(Get(Get(res.Body, "hits"), "total"), "value").n = 0
    /\ IsSlice(Get(Get(res.Body, "hits"), "hits"))
    /\ Len(HitsArray(res)) = 0

\* C3: a Search into the caller's list that the backend answers with a
\* success response of total 0 and an empty hits array returns StatusSuccess,
\* total 0, no hit, a nil error and leaves the list empty.
C3_ZeroMatchesIsSuccess ==
    (last.op = "Search" /\ last.data0.kind = "slice" /\ ZeroMatches(last.res)) =>
        /\ last.ret = SearchReturn(StatusSuccess, <<>>, 0, "nil")
        /\ last.data.list = <<>>
C3_Witness ==
    /\ last.op = "Search"
    /\ last.data0.kind = "slice"
    /\ last.data0.list # <<>>
    /\ ZeroMatches(last.res)
    /\ Returned(StatusSuccess)

\* C4: a Search that the backend answers with a success response that is a
\* JSON object without a hits field returns StatusNoContent, no hit, total 0
\* and a nil error, and leaves the caller's container as it was.
C4_NoHitsFieldIsNoContent ==
    (/\ last.op = "Search"
     /\ last.res.err = "nil" /\ ~IsError(last.res)
     /\ DecodesToMap(last.res.Body)
     /\ ~HasKey(last.res.Body, "hits")) =>
        /\ last.ret = SearchReturn(StatusNoContent, <<>>, 0, "nil")
        /\ last.data = last.data0
C4_Witness ==
    /\ last.op = "Search"
    /\ last.res.err = "nil" /\ ~IsError(last.res)
    /\ DecodesToMap(last.res.Body)
    /\ ~HasKey(last.res.Body, "hits")
    /\ Returned(StatusNoContent)
    /\ last.data.list = OldList

\* C5: a Search that returns StatusSuccess over a response of N hits returns
\* N hit records and leaves N documents in the caller's list; the record at
\* i carries the _id, _index and sort keys of the i-th hit of the response
\* and the document at i the fields of that hit's _source; under a sort
\* clause both lists run in the clause's direction.
C5_HitsAndDocumentsInResponseOrder ==
    (last.op = "Search" /\ Returned(StatusSuccess)) =>
      LET H == HitsArray(last.res)
          hits == last.ret.hits
          docs == last.data.list
          key(i) == hits[i].Sort[1].n
      IN /\ Len(hits) = Len(H)
         /\ Len(docs) = Len(H)
         /\ \A i \in 1..Len(H) :
              /\ hits[i].Id = Get(H[i], "_id").s
              /\ hits[i].Index = Get(H[i], "_index").s
              /\ hits[i].Sort = (IF HasKey(H[i], "sort") THEN Get(H[i], "sort").a
                                 ELSE <<>>)
              /\ HasKey(H[i], "_source") =>
                   /\ docs[i].Id = Get(Get(H[i], "_source"), "id").s
                   /\ docs[i].I = Get(Get(H[i], "_source"), "i").n
              /\ ~HasKey(H[i], "_source") => docs[i] = [Id |-> "", I |-> 0]
         /\ (last.fault = "none" /\ last.q.sort \in {"asc", "desc"}) =>
              /\ \A i \in 1..Len(H) :
                    hits[i].Id = docs[i].Id /\ key(i) = docs[i].I
              /\ \A i, j \in 1..Len(H) : i < j =>
                    IF last.q.sort = "asc"
                    THEN key(i) < key(j) /\ docs[i].I < docs[j].I
                    ELSE key(i) > key(j) /\ docs[i].I > docs[j].I
C5_Witness ==
    /\ last.op = "Search"
    /\ Returned(StatusSuccess)
    /\ last.q.sort = "desc"
    /\ Len(last.ret.hits) >= 2
    /\ Len(last.data.list) = Len(last.ret.hits)

\* C6 (as stated): GetSource returns 404 with a nil error when the backend
\* answers 404, and returns a non-nil error when the backend answers with any
\* other status outside 200..299.
C6_GetSourceErrorStatuses ==
    (last.op = "GetSource" /\ last.res.err = "nil") =>
        /\ last.res.StatusCode = 404 =>
             Returned(404) /\ last.ret.err = "nil"
        /\ (last.res.StatusCode # 404 /\ last.res.StatusCode \notin 200..299) =>
             last.ret.out = "return" /\ last.ret.err # "nil"

\* C7: a RemoveDocument call that the backend serves returns
\* StatusNotFoundError with a non-nil error when the id is not in the backend
\* and StatusSuccess with a nil error when it is, whatever calls came before.
C7_RemoveByExistence ==
    (last.op = "RemoveDocument" /\ last.fault = "none") =>
        IF last.existed
        THEN Returned(StatusSuccess) /\ last.ret.err = "nil"
        ELSE Returned(StatusNotFoundError) /\ last.ret.err # "nil"
C7_Witness ==
    /\ last.op = "RemoveDocument"
    /\ last.fault = "none"
    /\ ~last.existed
    /\ Returned(StatusNotFoundError)
    /\ last.doc.ID \in searchable

\* C8 (as stated): a call of an operation that returns a StatusCode whose
\* request fails in transport (an error and no response) returns
\* StatusRequestError with a non-nil error after that one request.
StatusCodeOps ==
    {"CreateIndexTemplate", "CreateDocument", "UpdateDocument", "RemoveDocument",
     "Search", "Count", "DeleteIndeces"}
C8_TransportFailureIsRequestError ==
    (last.op \in StatusCodeOps /\ last.res = NoResponse) =>
        /\ Returned(StatusRequestError)
        /\ last.ret.err # "nil"
        /\ last.sent = 1

\* C9: once CreateDocument with Refresh true or wait_for has returned
\* StatusCreated for an id, and no call has removed the id since, a Search
\* into the caller's list for that id alone which the backend serves returns
\* StatusSuccess with total 1, with or without a Refresh call in between.
C9_RefreshedCreateIsSearchable ==
    (/\ last.op = "Search"
     /\ last.fault = "none"
     /\ last.data0.kind = "slice"
     /\ Cardinality(last.q.ids) = 1
     /\ last.q.ids \subseteq fresh) =>
        /\ Returned(StatusSuccess)
        /\ last.ret.total = 1
        /\ Len(last.ret.hits) = 1
        /\ last.ret.hits[1].Id \in last.q.ids
C9_Witness ==
    /\ last.op = "Search"
    /\ last.fault = "none"
    /\ Cardinality(last.q.ids) = 1
    /\ last.q.ids \subseteq fresh
    /\ Returned(StatusSuccess)
    /\ last.ret.total = 1

\* C10 (as stated): every call of Count, GetSource, Search, CreateDocument,
\* UpdateDocument and RemoveDocument returns to its caller, whatever the
\* backend answers; none ends the host process.
C10_EveryCallReturns ==
    (last.op \in {"Count", "GetSource", "Search", "CreateDocument",
                  "UpdateDocument", "RemoveDocument"}) =>
        last.ret.out = "return" /\ proc = "running"

\* C11 (as stated): when a response with an HTTP status of 400 or more is
\* obtained, an operation that returns a StatusCode returns
\* StatusBadRequestError for 400, StatusNotFoundError for 404 on
\* RemoveDocument and StatusError for every other error status, each with a
\* non-nil error.
C11_ErrorStatusMapping ==
    (/\ last.op \in StatusCodeOps
     /\ last.res.err = "nil"
     /\ last.res.StatusCode >= 400) =>
        /\ last.ret.out = "return"
        /\ last.ret.status =
             (IF last.res.StatusCode = 400 THEN StatusBadRequestError
              ELSE IF last.res.StatusCode = 404 /\ last.op = "RemoveDocument"
                   THEN StatusNotFoundError
              ELSE StatusError)
        /\ last.ret.err # "nil"

\* a success response to a search that does not decode into hit records and
\* documents: the body is no JSON object, or it has a hits field and the
\* hits object, its total, its hits array or a hit does not have the
\* expected shape, or the sources do not decode into the caller's container
SearchDecodeFails(res, data) ==
    /\ res.err = "nil"
    /\ ~IsError(res)
    /\ IF ~DecodesToMap(res.Body) THEN TRUE
       ELSE IF ~HasKey(res.Body, "hits") THEN FALSE
       ELSE IF ~TotalOk(res.Body) THEN TRUE
       ELSE IF ~IsSlice(Get(Get(res.Body, "hits"), "hits")) THEN TRUE
       ELSE \/ \E i \in 1..Len(HitsArray(res)) : ~HitOk(HitsArray(res)[i])
            \/ Unmarshal(SourceDocuments(HitsArray(res)), data).err # "nil"

\* C12 (as stated): a Search whose success response fails to decode at any
\* step returns StatusParseError with a non-nil error, an empty hit list and
\* total 0, and no other status.
C12_DecodeFailureIsParseError ==
    (last.op = "Search" /\ SearchDecodeFails(last.res, last.data0)) =>
        /\ Returned(StatusParseError)
        /\ last.ret.err # "nil"
        /\ last.ret.hits = <<>>
        /\ last.ret.total = 0

\* C13: every Search request asks for exact total-hit tracking; a Search that
\* returns StatusSuccess returns the hits.total.value of the response, 0 when
\* the response has no total, and for a search the backend serves the total
\* is the number of documents that matched the query when it ran, however
\* many hits the page carries.
C13_TotalIsExactMatchCount ==
    (last.op = "Search") =>
        /\ last.req.TrackTotalHits = TRUE
        /\ Returned(StatusSuccess) =>
             LET h == Get(last.res.Body, "hits")
             IN /\ HasKey(h, "total") => last.ret.total = Get(Get(h, "total"), "value").n
                /\ ~HasKey(h, "total") => last.ret.total = 0
                /\ last.fault = "none" =>
                     /\ last.ret.total = last.matches
                     /\ last.ret.total >= Len(last.ret.hits)
C13_Witness ==
    /\ last.op = "Search"
    /\ Returned(StatusSuccess)
    /\ last.fault = "none"
    /\ last.ret.total > Len(last.ret.hits)
    /\ Len(last.ret.hits) = PageSize
====
